---- MODULE Spec2Model ----
(***************************************************************************)
(* NexoDigital responsive navigation script: the timing utilities          *)
(* (throttle, debounce), the device probe and the Navigation class, as     *)
(* state machines driven by the document's event loop.                     *)
(*                                                                         *)
(* The specifications share the module's variables:                        *)
(*   SpecThrottle  one throttle(fn, delay) wrapper, its timer and fn       *)
(*   SpecDebounce  one debounce(fn, delay) wrapper, its timer and fn       *)
(*   Spec          a constructed Navigation instance and the page          *)
(*   SpecStill     the same, for a user who prefers reduced motion         *)
(*   SpecDisabled  an instance whose constructor found an element missing  *)
(*   SpecPage      the page being scrolled, for every document layout      *)
(*   SpecScroll    the scroll handler, at offsets around its thresholds    *)
(*   SpecReveal    ScrollAnimations and its IntersectionObserver           *)
(*   SpecLoad      the script's evaluation, then DOMContentLoaded          *)
(*   SpecProbe     deviceCapabilities, at widths around the breakpoints    *)
(***************************************************************************)
EXTENDS Integers, Sequences, FiniteSets

VARIABLES
  \* ---- event loop clock and timers of the wrapper under test ----
  now,           \* ms elapsed since the page was loaded
  delay,         \* the delay the wrapper was created with
  lastExecTime,  \* throttle closure: Date.now() of the last execution, 0 at first
  timeoutId,     \* closure: id returned by the last setTimeout, 0 = undefined
  timers,        \* host: pending timers, records [id, due, arg, ctx]
  callLog,       \* history: time of every call of the wrapper
  execLog,       \* history: [t, arg, ctx, kind] of every execution of fn
  winCall,       \* history: the most recent call that scheduled a timer
  late,          \* history: the host let the clock pass a timer that was due
  \* ---- the page (DOM, window) ----
  layout,        \* the document: navbar height, nav links, sections with an id
  present,       \* which of .navbar, .nav-toggle, .nav-list the document has
  reducedMotion, \* deviceCapabilities.prefersReducedMotion, read once at load
  innerWidth,    \* window.innerWidth
  scrollY,       \* window.scrollY, in half pixels
  body,          \* document.body.style: position, top, overflow, width
  listActive,    \* navList.classList has 'active'
  toggleActive,  \* navToggle.classList has 'active'
  navTransform,  \* navbar.style.transform
  activeLinks,   \* indices of the nav links whose classList has 'active'
  liStyle,       \* inline style of each menu item: "", "start" or "end"
  \* ---- the Navigation instance ----
  isOpen,        \* this.isOpen
  lastScrollY,   \* this.lastScrollY
  \* ---- the event loop of the page ----
  resizePending, \* the debounced resize handler's timer is pending
  scrollPending, \* a scroll event was dispatched and handleScroll has not run yet
  pendingScrolls,\* hrefs of the pending 150 ms scrollToSection timers, in order
  animTimers,    \* per menu item: pending entrance-animation timers
  \* ---- history of the last event handled ----
  ev,            \* its name
  closeCalls,    \* how many times it called close()
  err,           \* it raised an exception
  prevented,     \* it called preventDefault()
  scrollCalls,   \* how many times it called scrollToSection()
  lockY,         \* window.scrollY when the lock in effect was applied, else -1
  toggleRun,     \* toggle clicks so far if nothing else has happened, else -1
  probe,         \* what isMobile() and isTablet() returned when last called
  \* ---- ScrollAnimations and the host's IntersectionObserver ----
  observed,      \* the observer's targets
  inView,        \* the elements that intersect the root now
  known,         \* per target: the intersection state the observer last recorded
  queued,        \* the observer's queued entries, [target, isIntersecting]
  animated,      \* history: per element, the calls of animateElement on it
  elStyle,       \* per element: inline style "", "start" or "end"
  frames,        \* per element: pending requestAnimationFrame callbacks
  \* ---- the script's top level ----
  phase,         \* "script": evaluated, DOM still loading; "ready": after DOMContentLoaded
  navigation,    \* the binding `let navigation`
  exported       \* window.NexoDigital.navigation

timingVars == <<now, delay, lastExecTime, timeoutId, timers, callLog, execLog,
                winCall, late>>

pageVars == <<layout, present, reducedMotion, innerWidth, scrollY, body,
              listActive, toggleActive, navTransform, activeLinks, liStyle>>

revealVars == <<observed, inView, known, queued, animated, elStyle, frames>>

loadVars == <<phase, navigation, exported>>

navVars == <<pageVars, isOpen, lastScrollY, resizePending, scrollPending,
             pendingScrolls, animTimers, ev, closeCalls, err, prevented,
             scrollCalls, lockY, toggleRun, probe, revealVars, loadVars>>

vars == <<timingVars, navVars>>

(***************************************************************************)
(* CONFIG                                                                  *)
(***************************************************************************)
ThrottleDelay == 16
DebounceDelay == 300
MobileBreakpoint == 768
TabletBreakpoint == 1024

(***************************************************************************)
(* Bounds of the model                                                     *)
(***************************************************************************)
Epoch == 1000         \* Date.now() when the page was loaded (any value > delay)
MaxCalls == 4         \* SpecThrottle: calls of the wrapper in one behaviour
MaxTime == 38         \* SpecThrottle: last instant of the clock, in ms
SmallDelay == 3       \* SpecThrottle: a second, shorter delay
MaxLate == 5          \* the host runs a timer at most this many ms after it is due
MaxDebTime == 445     \* SpecDebounce: last instant of the clock, in ms
MaxDebCalls == 3      \* SpecDebounce: calls of the wrapper in one behaviour
SmallDebDelay == 40   \* SpecDebounce: a second, shorter delay
MaxAnimPending == 1   \* Spec: pending entrance timers per menu item
MaxPendingScrolls == 1 \* Spec: pending 150 ms scroll timers
MaxToggleRun == 4     \* Spec: toggle clicks counted from construction
MaxQueued == 3        \* SpecReveal: entries the observer holds before a delivery

ThrottleCallTimes == {0, 2, 5, 10, 20}   \* instants at which calls may arrive
DebounceCallTimes == {0, 50, 100, 140}   \* the same, for the debounce wrapper
Ctxs == {"thisA", "thisB"}               \* binding contexts a call may have

NoCall == [t |-> -1, arg |-> 0, ctx |-> "none", due |-> -1]

(***************************************************************************)
(* The page: lengths are in half pixels, so that window.scrollY can be     *)
(* fractional                                                              *)
(***************************************************************************)
Px(n) == 2 * n

Hash(name) == [hash |-> TRUE, name |-> name]     \* the href '#name'
Page(name) == [hash |-> FALSE, name |-> name]    \* an href that is no fragment
Home == Hash("")                                 \* the href '#'

Section(id, top, height) == [id |-> id, top |-> Px(top), height |-> Px(height)]

\* one section, one link to it; the third .nav-link is a button of the
\* navbar outside the menu list
LayoutPlain ==
  [navbarHeight |-> Px(60), maxScroll |-> Px(500), items |-> 2,
   links |-> <<Home, Hash("about"), Page("blog.html")>>,
   sections |-> <<Section("about", 185, 395)>>]

\* a section with an id that no nav link points to, before a linked one
LayoutUnlinked ==
  [navbarHeight |-> Px(60), maxScroll |-> Px(500), items |-> 2,
   links |-> <<Home, Hash("work"), Page("blog.html")>>,
   sections |-> <<Section("hero", 0, 580), Section("work", 580, 400)>>]

\* a section with an id nested in another one
LayoutNested ==
  [navbarHeight |-> Px(60), maxScroll |-> Px(500), items |-> 2,
   links |-> <<Home, Hash("services"), Hash("pricing")>>,
   sections |-> <<Section("services", 185, 800), Section("pricing", 580, 200)>>]

Layouts == {LayoutPlain, LayoutUnlinked, LayoutNested}

Elements == {"navbar", "navToggle", "navList"}
Widths == {MobileBreakpoint, MobileBreakpoint + 1}
ScrollYs == {0, Px(99) + 1, Px(105), Px(500)}

Links == 1..Len(layout.links)
Items == 1..layout.items             \* the <li> of the menu list

\* the text of a CSS length: sign, integer digits, fraction digit; '' is NoText
NoText == [sign |-> "", int |-> 0, frac |-> 0]
NoStyle == [position |-> "", top |-> NoText, overflow |-> "", width |-> ""]

\* `-${window.scrollY}px`
CssTop(y) == [sign |-> "-", int |-> y \div 2, frac |-> (y % 2) * 5]

\* parseInt(text || '0'): the sign and the digits before the first non-digit
ParseInt(text) ==
  IF text = NoText THEN 0
  ELSE IF text.sign = "-" THEN 0 - text.int ELSE text.int

(***************************************************************************)
(* deviceCapabilities                                                      *)
(***************************************************************************)
isMobile == innerWidth <= MobileBreakpoint
isTabletInclusive == innerWidth >= MobileBreakpoint /\ innerWidth <= TabletBreakpoint
isTablet == innerWidth > MobileBreakpoint /\ innerWidth <= TabletBreakpoint

(***************************************************************************)
(* Navigation: the methods, as functions from the state before to the      *)
(* state after. A method that dereferences an absent element throws: the   *)
(* state keeps what the method did up to there and err is set.             *)
(***************************************************************************)
Has(e) == e \in present

St ==
  [isOpen |-> isOpen, lastScrollY |-> lastScrollY, scrollY |-> scrollY,
   body |-> body, listActive |-> listActive, toggleActive |-> toggleActive,
   navTransform |-> navTransform, activeLinks |-> activeLinks,
   liStyle |-> liStyle, scrollPending |-> scrollPending,
   pendingScrolls |-> pendingScrolls, animTimers |-> animTimers,
   closeCalls |-> 0, err |-> FALSE, prevented |-> FALSE, scrollCalls |-> 0,
   lockY |-> lockY]

Throw(s) == [s EXCEPT !.err = TRUE]

\* window.scrollTo(0, y): a document whose body is fixed does not scroll
ScrollTo(s, y) ==
  LET t == IF y < 0 THEN 0 ELSE IF y > layout.maxScroll THEN layout.maxScroll ELSE y
  IN IF s.body.position = "fixed" THEN s
     ELSE [s EXCEPT !.scrollY = t, !.scrollPending = (@ \/ t # s.scrollY)]

\* open(): the body-scroll lock
LockBody(s) ==
  [s EXCEPT !.body = [position |-> "fixed", top |-> CssTop(s.scrollY),
                      overflow |-> "hidden", width |-> "100%"],
            !.lockY = s.scrollY,
            !.scrollY = 0,
            !.scrollPending = (@ \/ s.scrollY # 0)]

\* close(): the body-scroll unlock
UnlockBody(s) ==
  LET top == s.body.top
  IN ScrollTo([s EXCEPT !.body = NoStyle, !.lockY = -1], Px(ParseInt(top) * (0 - 1)))

LockWhen(s) == IF isMobile THEN LockBody(s) ELSE s

UnlockWhen(s) == IF isMobile THEN UnlockBody(s) ELSE s

animateLinksIn(s) ==
  IF reducedMotion THEN s
  ELSE [s EXCEPT !.liStyle = [i \in Items |-> "start"],
                 !.animTimers = [i \in Items |-> @[i] + 1]]

open(s) ==
  IF ~Has("navList") THEN Throw(s)
  ELSE LET s1 == [s EXCEPT !.listActive = TRUE] IN
  IF ~Has("navToggle") THEN Throw(s1)
  ELSE animateLinksIn(LockWhen([s1 EXCEPT !.toggleActive = TRUE, !.isOpen = TRUE]))

close(s) ==
  LET s0 == [s EXCEPT !.closeCalls = @ + 1] IN
  IF ~Has("navList") THEN Throw(s0)
  ELSE LET s1 == [s0 EXCEPT !.listActive = FALSE] IN
  IF ~Has("navToggle") THEN Throw(s1)
  ELSE UnlockWhen([s1 EXCEPT !.toggleActive = FALSE, !.isOpen = FALSE])

toggleAlwaysOpen(s) == open(s)
toggleFlagOnly(s) == [s EXCEPT !.isOpen = ~@]
toggle(s) == IF s.isOpen THEN close(s) ELSE open(s)

handleResizeAnyState(s) ==
  LET s1 == IF ~isMobile THEN close(s) ELSE s IN
  IF s1.err \/ isMobile THEN s1
  ELSE [s1 EXCEPT !.liStyle = [i \in Items |-> ""]]

handleResize(s) ==
  LET s1 == IF ~isMobile /\ s.isOpen THEN close(s) ELSE s IN
  IF s1.err \/ isMobile THEN s1
  ELSE IF ~Has("navList") THEN Throw(s1)
  ELSE [s1 EXCEPT !.liStyle = [i \in Items |-> ""]]

\* the section's bounds of updateActiveLink
SectionContains(sec, y) ==
  LET sectionTop == sec.top - layout.navbarHeight - Px(50)
  IN y >= sectionTop /\ y < sectionTop + sec.height

\* current after the first k sections: the last one that contains y
RECURSIVE CurrentAfter(_, _)
CurrentAfter(k, y) ==
  IF k = 0 THEN ""
  ELSE IF SectionContains(layout.sections[k], y) THEN layout.sections[k].id
  ELSE CurrentAfter(k - 1, y)

CurrentSectionNoTop(y) == CurrentAfter(Len(layout.sections), y)
CurrentSection(y) ==
  IF y < Px(100) THEN "" ELSE CurrentAfter(Len(layout.sections), y)

LinkMatches(href, current) ==
  \/ current = "" /\ href = Home
  \/ current # "" /\ href = Hash(current)

updateActiveLink(s) ==
  IF layout.sections # <<>> /\ ~Has("navbar") THEN Throw(s)
  ELSE [s EXCEPT !.activeLinks =
          {i \in Links : LinkMatches(layout.links[i], CurrentSection(s.scrollY))}]

Abs(x) == IF x < 0 THEN 0 - x ELSE x

handleScrollNoFloor(s) ==
  LET currentScrollY == s.scrollY
      moved == Abs(currentScrollY - s.lastScrollY) > Px(10)
      down == currentScrollY > s.lastScrollY
  IN IF moved /\ ~Has("navbar") THEN Throw(s)
     ELSE updateActiveLink(
            [s EXCEPT !.navTransform = IF moved
                                         THEN (IF down THEN "translateY(-100%)"
                                                       ELSE "translateY(0)")
                                         ELSE @,
                      !.lastScrollY = currentScrollY])

handleScroll(s) ==
  LET currentScrollY == s.scrollY
      moved == Abs(currentScrollY - s.lastScrollY) > Px(10)
      down == currentScrollY > s.lastScrollY /\ currentScrollY > Px(100)
  IN IF moved /\ ~Has("navbar") THEN Throw(s)
     ELSE updateActiveLink(
            [s EXCEPT !.navTransform = IF moved
                                         THEN (IF down THEN "translateY(-100%)"
                                                       ELSE "translateY(0)")
                                         ELSE @,
                      !.lastScrollY = currentScrollY])

\* document.querySelector('#') is a syntax error; an href with no element is null
scrollToSection(s, href) ==
  LET found == {k \in 1..Len(layout.sections) : layout.sections[k].id = href.name}
      s0 == [s EXCEPT !.scrollCalls = @ + 1]
  IN IF href = Home THEN Throw(s0)
     ELSE IF found = {} THEN s0
     ELSE IF ~Has("navbar") THEN Throw(s0)
     ELSE LET target == layout.sections[CHOOSE k \in found : \A j \in found : k <= j]
          IN ScrollTo(s0, target.top - (layout.navbarHeight + Px(20)))

\* the elements of the page that match '.section, .service-card, .project-card,
\* .blog-card'
RevealOrder == <<"services", "card1", "card2">>
RevealEls == {RevealOrder[k] : k \in 1..Len(RevealOrder)}

NoProbe == [w |-> -1, mobile |-> FALSE, tablet |-> FALSE]

\* the rest of the script while the navigation or a wrapper is examined on its
\* own: evaluated and initialised, no observer at work
AppIdle ==
  /\ probe = NoProbe
  /\ observed = {}
  /\ inView = {}
  /\ known = [e \in RevealEls |-> "none"]
  /\ queued = <<>>
  /\ animated = [e \in RevealEls |-> 0]
  /\ elStyle = [e \in RevealEls |-> ""]
  /\ frames = [e \in RevealEls |-> 0]
  /\ phase = "ready"
  /\ navigation = "instance"
  /\ exported = "null"

\* the page while a wrapper is examined on its own: loaded, nothing happening
NavIdle ==
  /\ AppIdle
  /\ layout = LayoutPlain
  /\ present = Elements
  /\ reducedMotion = FALSE
  /\ innerWidth = MobileBreakpoint
  /\ scrollY = 0
  /\ body = NoStyle
  /\ listActive = FALSE
  /\ toggleActive = FALSE
  /\ navTransform = ""
  /\ activeLinks = {1}
  /\ liStyle = [i \in 1..LayoutPlain.items |-> ""]
  /\ isOpen = FALSE
  /\ lastScrollY = 0
  /\ resizePending = FALSE
  /\ scrollPending = FALSE
  /\ pendingScrolls = <<>>
  /\ animTimers = [i \in 1..LayoutPlain.items |-> 0]
  /\ ev = "init"
  /\ closeCalls = 0
  /\ err = FALSE
  /\ prevented = FALSE
  /\ scrollCalls = 0
  /\ lockY = -1
  /\ toggleRun = 0

(***************************************************************************)
(* Host: Date.now(), setTimeout, clearTimeout                              *)
(***************************************************************************)
DateNow == Epoch + now

setTimeout(ts, id, ms, arg, ctx) ==
  ts \cup {[id |-> id, due |-> now + (IF ms < 0 THEN 0 ELSE ms), arg |-> arg, ctx |-> ctx]}

clearTimeout(ts, id) == {t \in ts : t.id # id}

Due(ts) == {t \in ts : t.due <= now}

Latest(S) == CHOOSE x \in S : \A y \in S : y <= x

\* the clock advances by one ms while a timer is pending or a call may still
\* arrive; the host may run a due timer late
Tick(max, callTimes) ==
  /\ now < max
  /\ timers # {} \/ now < Latest(callTimes)
  /\ \A t \in timers : now < t.due + MaxLate
  /\ now' = now + 1
  /\ late' = (late \/ Due(timers) # {})
  /\ UNCHANGED <<delay, lastExecTime, timeoutId, timers, callLog, execLog, winCall>>
  /\ UNCHANGED navVars

\* fn: the wrapped function, which records its execution
Exec(arg, ctx, kind) ==
  Append(execLog, [t |-> now, arg |-> arg, ctx |-> ctx, kind |-> kind])

(***************************************************************************)
(* throttle(func, delay)                                                   *)
(***************************************************************************)
ThrottleReady(currentTime) == currentTime - lastExecTime > delay

ThrottleRemainingFull(currentTime) == delay
ThrottleRemaining(currentTime) == delay - (currentTime - lastExecTime)

ThrottleKeepPending(ts) == ts
ThrottleCancel(ts) == clearTimeout(ts, timeoutId)

\* the wrapper is called with args = <<arg>> and this = ctx
ThrottleCall(arg, ctx) ==
  LET currentTime == DateNow IN
  /\ callLog' = Append(callLog, now)
  /\ IF ThrottleReady(currentTime)
       THEN /\ execLog' = Exec(arg, ctx, "leading")
            /\ lastExecTime' = currentTime
            /\ UNCHANGED <<timeoutId, timers, winCall>>
       ELSE /\ timers' = setTimeout(ThrottleCancel(timers), arg,
                                    ThrottleRemaining(currentTime), arg, ctx)
            /\ timeoutId' = arg
            /\ winCall' = [t |-> now, arg |-> arg, ctx |-> ctx,
                           due |-> (lastExecTime - Epoch) + delay]
            /\ UNCHANGED <<lastExecTime, execLog>>
  /\ UNCHANGED <<now, delay, late>>
  /\ UNCHANGED navVars

\* the trailing timer's callback
ThrottleTimer(tm) ==
  /\ tm \in Due(timers)
  /\ timers' = timers \ {tm}
  /\ execLog' = Exec(tm.arg, tm.ctx, "trailing")
  /\ lastExecTime' = DateNow
  /\ UNCHANGED <<now, delay, timeoutId, callLog, winCall, late>>
  /\ UNCHANGED navVars

ThrottleInit ==
  /\ now = 0
  /\ delay \in {SmallDelay, ThrottleDelay}
  /\ lastExecTime = 0
  /\ timeoutId = 0
  /\ timers = {}
  /\ callLog = <<>>
  /\ execLog = <<>>
  /\ winCall = NoCall
  /\ late = FALSE
  /\ NavIdle

ThrottleNext ==
  \/ Tick(MaxTime, ThrottleCallTimes)
  \/ \E c \in Ctxs :
       /\ Len(callLog) < MaxCalls
       /\ now \in ThrottleCallTimes
       /\ ThrottleCall(Len(callLog) + 1, c)
  \/ \E tm \in timers : ThrottleTimer(tm)

SpecThrottle == ThrottleInit /\ [][ThrottleNext]_vars

(***************************************************************************)
(* debounce(func, delay)                                                   *)
(***************************************************************************)
DebounceKeepPending(ts) == ts
DebounceCancel(ts) == clearTimeout(ts, timeoutId)

DebounceWait(d) == d

\* the wrapper is called with args = <<arg>> and this = ctx
DebounceCall(arg, ctx) ==
  /\ callLog' = Append(callLog, now)
  /\ timers' = setTimeout(DebounceCancel(timers), arg, DebounceWait(delay), arg, ctx)
  /\ timeoutId' = arg
  /\ winCall' = [t |-> now, arg |-> arg, ctx |-> ctx, due |-> now + delay]
  /\ UNCHANGED <<now, delay, lastExecTime, execLog, late>>
  /\ UNCHANGED navVars

\* the timer's callback
DebounceTimer(tm) ==
  /\ tm \in Due(timers)
  /\ timers' = timers \ {tm}
  /\ execLog' = Exec(tm.arg, tm.ctx, "timer")
  /\ UNCHANGED <<now, delay, lastExecTime, timeoutId, callLog, winCall, late>>
  /\ UNCHANGED navVars

DebounceInit ==
  /\ now = 0
  /\ delay \in {SmallDebDelay, DebounceDelay}
  /\ lastExecTime = 0
  /\ timeoutId = 0
  /\ timers = {}
  /\ callLog = <<>>
  /\ execLog = <<>>
  /\ winCall = NoCall
  /\ late = FALSE
  /\ NavIdle

DebounceNext ==
  \/ Tick(MaxDebTime, DebounceCallTimes)
  \/ \E c \in Ctxs :
       /\ Len(callLog) < MaxDebCalls
       /\ now \in DebounceCallTimes
       /\ DebounceCall(Len(callLog) + 1, c)
  \/ \E tm \in timers : DebounceTimer(tm)

SpecDebounce == DebounceInit /\ [][DebounceNext]_vars

(***************************************************************************)
(* Navigation: construction, listeners and timers                          *)
(***************************************************************************)
\* the listeners exist only when the constructor reached init()
Bound == present = Elements

Commit(s, e) ==
  /\ isOpen' = s.isOpen
  /\ lastScrollY' = s.lastScrollY
  /\ scrollY' = s.scrollY
  /\ body' = s.body
  /\ listActive' = s.listActive
  /\ toggleActive' = s.toggleActive
  /\ navTransform' = s.navTransform
  /\ activeLinks' = s.activeLinks
  /\ liStyle' = s.liStyle
  /\ scrollPending' = s.scrollPending
  /\ pendingScrolls' = s.pendingScrolls
  /\ animTimers' = s.animTimers
  /\ closeCalls' = s.closeCalls
  /\ err' = s.err
  /\ prevented' = s.prevented
  /\ scrollCalls' = s.scrollCalls
  /\ lockY' = s.lockY
  /\ ev' = e
  /\ UNCHANGED <<layout, present, reducedMotion>>
  /\ UNCHANGED <<probe, revealVars, loadVars>>
  /\ UNCHANGED timingVars

\* the model holds at most MaxAnimPending entrance timers per menu item
CanAnimate == reducedMotion \/ \A i \in Items : animTimers[i] < MaxAnimPending

\* constructor: fields, the check for the three elements, then init()
NavInit(els, layouts, motions) ==
  /\ layout \in layouts
  /\ present = els
  /\ reducedMotion \in motions
  /\ innerWidth \in Widths
  /\ scrollY \in ScrollYs
  /\ body = NoStyle
  /\ listActive = FALSE
  /\ toggleActive = FALSE
  /\ navTransform = ""
  /\ activeLinks = IF els = Elements
                     THEN {i \in Links : LinkMatches(layout.links[i], CurrentSection(scrollY))}
                     ELSE {}
  /\ liStyle = [i \in Items |-> ""]
  /\ isOpen = FALSE
  /\ lastScrollY = 0
  /\ resizePending = FALSE
  /\ scrollPending = FALSE
  /\ pendingScrolls = <<>>
  /\ animTimers = [i \in Items |-> 0]
  /\ ev = "init"
  /\ closeCalls = 0
  /\ err = FALSE
  /\ prevented = FALSE
  /\ scrollCalls = 0
  /\ lockY = -1
  /\ toggleRun = 0

TimingIdle ==
  /\ now = 0
  /\ delay = DebounceDelay
  /\ lastExecTime = 0
  /\ timeoutId = 0
  /\ timers = {}
  /\ callLog = <<>>
  /\ execLog = <<>>
  /\ winCall = NoCall
  /\ late = FALSE

\* click on .nav-toggle
ToggleClick ==
  /\ Bound
  /\ isOpen \/ CanAnimate
  /\ Commit(toggle([St EXCEPT !.prevented = TRUE]), "toggle")
  /\ toggleRun' = IF toggleRun \in 0..(MaxToggleRun - 1) THEN toggleRun + 1 ELSE -1
  /\ UNCHANGED <<innerWidth, resizePending>>

\* click on the i-th .nav-link: the listener of bindEvents, then the one of
\* initSmoothScroll; the link is inside the navbar, so the document's click
\* listener does nothing
LinkClick(i) ==
  LET href == layout.links[i]
      closing == isOpen /\ isMobile
      s1 == IF closing /\ href.hash
              THEN [close([St EXCEPT !.prevented = TRUE])
                      EXCEPT !.pendingScrolls = Append(@, href)]
              ELSE IF closing THEN close(St) ELSE St
      s2 == IF href.hash /\ href # Home
              THEN scrollToSection([s1 EXCEPT !.prevented = TRUE], href)
              ELSE s1
  IN /\ Bound
     /\ (closing /\ href.hash) => Len(pendingScrolls) < MaxPendingScrolls
     /\ Commit(s2, "link")
     /\ toggleRun' = -1
     /\ UNCHANGED <<innerWidth, resizePending>>

\* the document's click listener, for a target outside the navbar
onOutsideClickAnyWidth(s) == IF s.isOpen THEN close(s) ELSE s
onOutsideClick(s) == IF s.isOpen /\ isMobile THEN close(s) ELSE s

\* click on the document outside the navbar
OutsideClick ==
  /\ Bound
  /\ Commit(onOutsideClick(St), "outside")
  /\ toggleRun' = -1
  /\ UNCHANGED <<innerWidth, resizePending>>

\* the document's keydown listener, for the key 'Escape'
onEscapeAnyState(s) == close(s)
onEscapeKeepOffset(s) ==
  IF s.isOpen THEN [close(s) EXCEPT !.lastScrollY = s.scrollY] ELSE s
onEscape(s) == IF s.isOpen THEN close(s) ELSE s

\* keydown with key 'Escape'
EscapeKey ==
  /\ Bound
  /\ Commit(onEscape(St), "escape")
  /\ toggleRun' = -1
  /\ UNCHANGED <<innerWidth, resizePending>>

\* the window is resized to width w: the debounced listener restarts its timer
Resize(w) ==
  /\ innerWidth' = w
  /\ resizePending' = Bound
  /\ Commit(St, "resize")
  /\ toggleRun' = -1

\* the debounced resize handler runs
ResizeTimer ==
  /\ resizePending
  /\ resizePending' = FALSE
  /\ Commit(handleResize(St), "resizeTimer")
  /\ toggleRun' = -1
  /\ UNCHANGED innerWidth

\* the user scrolls the document to offset y
UserScroll(y) ==
  /\ body.position # "fixed"
  /\ y # scrollY
  /\ Commit([St EXCEPT !.scrollY = y, !.scrollPending = Bound], "scroll")
  /\ toggleRun' = -1
  /\ UNCHANGED <<innerWidth, resizePending>>

\* the throttled scroll handler runs
ScrollTick ==
  /\ scrollPending
  /\ Commit(handleScroll([St EXCEPT !.scrollPending = FALSE]), "scrollTick")
  /\ UNCHANGED <<innerWidth, resizePending, toggleRun>>

\* the 150 ms timer of a link click runs
ScrollTimer ==
  /\ pendingScrolls # <<>>
  /\ Commit(scrollToSection([St EXCEPT !.pendingScrolls = Tail(@)],
                            Head(pendingScrolls)), "scrollTimer")
  /\ toggleRun' = -1
  /\ UNCHANGED <<innerWidth, resizePending>>

\* the entrance timer of menu item i runs; the timers of one open() run in
\* the order of the items
AnimTimer(i) ==
  /\ animTimers[i] > 0
  /\ \A j \in Items : j < i => animTimers[j] < animTimers[i]
  /\ Commit([St EXCEPT !.liStyle[i] = "end", !.animTimers[i] = @ - 1], "animTimer")
  /\ UNCHANGED <<innerWidth, resizePending, toggleRun>>

Init == NavInit(Elements, {LayoutPlain}, {FALSE}) /\ TimingIdle /\ AppIdle

Next ==
  \/ ToggleClick
  \/ \E i \in Links : LinkClick(i)
  \/ OutsideClick
  \/ EscapeKey
  \/ \E w \in Widths : Resize(w)
  \/ ResizeTimer
  \/ \E y \in ScrollYs : UserScroll(y)
  \/ ScrollTick
  \/ ScrollTimer
  \/ \E i \in Items : AnimTimer(i)

Spec == Init /\ [][Next]_vars

\* the same page for a user who prefers reduced motion: animateLinksIn returns
\* at once, so no entrance timer is ever set
StillInit == NavInit(Elements, {LayoutPlain}, {TRUE}) /\ TimingIdle /\ AppIdle

StillNext ==
  \/ ToggleClick
  \/ \E i \in Links : LinkClick(i)
  \/ OutsideClick
  \/ EscapeKey
  \/ \E w \in Widths : Resize(w)
  \/ ResizeTimer
  \/ \E y \in ScrollYs : UserScroll(y)
  \/ ScrollTick
  \/ ScrollTimer

SpecStill == StillInit /\ [][StillNext]_vars

(***************************************************************************)
(* A Navigation instance whose constructor returned before init()          *)
(***************************************************************************)
Methods == {"toggle", "open", "close", "handleResize", "handleScroll",
            "updateActiveLink"}

Invoke(m, s) ==
  CASE m = "toggle" -> toggle(s)
    [] m = "open" -> open(s)
    [] m = "close" -> close(s)
    [] m = "handleResize" -> handleResize(s)
    [] m = "handleScroll" -> handleScroll(s)
    [] m = "updateActiveLink" -> updateActiveLink(s)

\* another script of the page calls a method of the instance
Call(m) ==
  /\ ~Bound
  /\ CanAnimate
  /\ Commit(Invoke(m, St), m)
  /\ toggleRun' = -1
  /\ UNCHANGED <<innerWidth, resizePending>>

\* a click, a key or a timer for which no listener was bound
Unheard(e) ==
  /\ ~Bound
  /\ Commit(St, e)
  /\ toggleRun' = -1
  /\ UNCHANGED <<innerWidth, resizePending>>

DisabledInit ==
  /\ \E els \in (SUBSET Elements) \ {Elements} : NavInit(els, {LayoutPlain}, BOOLEAN)
  /\ TimingIdle
  /\ AppIdle

DisabledNext ==
  \/ \E m \in Methods : Call(m)
  \/ \E e \in {"toggle", "link", "outside", "escape"} : Unheard(e)
  \/ \E w \in Widths : Resize(w)
  \/ \E y \in ScrollYs : UserScroll(y)

SpecDisabled == DisabledInit /\ [][DisabledNext]_vars

(***************************************************************************)
(* The page being scrolled, for every document layout                      *)
(***************************************************************************)
PageInit == NavInit(Elements, Layouts, BOOLEAN) /\ TimingIdle /\ AppIdle

PageNext ==
  \/ \E y \in ScrollYs : UserScroll(y)
  \/ ScrollTick
  \/ \E i \in Links : LinkClick(i)

SpecPage == PageInit /\ [][PageNext]_vars

(***************************************************************************)
(* The scroll handler at offsets around its thresholds (10 px of movement, *)
(* 100 px from the top)                                                    *)
(***************************************************************************)
FineScrollYs == {0, Px(10), Px(10) + 1, Px(100), Px(101), Px(111), Px(500)}

ScrollNext ==
  \/ \E y \in FineScrollYs : UserScroll(y)
  \/ ScrollTick

SpecScroll == Init /\ [][ScrollNext]_vars

(***************************************************************************)
(* ScrollAnimations: the reveal-on-scroll controller. The host computes    *)
(* the intersections when it updates the rendering, queues an entry for    *)
(* every target whose state changed and delivers the queued entries to the *)
(* callback in a later task; it may update the rendering more than once    *)
(* before that task runs.                                                  *)
(***************************************************************************)
Rv == [observed |-> observed, known |-> known, animated |-> animated,
       elStyle |-> elStyle, frames |-> frames]

\* animateElement(element): the start styles, then a frame is requested
animateElement(r, e) ==
  [r EXCEPT !.animated[e] = @ + 1, !.elStyle[e] = "start", !.frames[e] = @ + 1]

\* observer.unobserve(element): the registration of the target is removed
unobserve(r, e) ==
  [r EXCEPT !.observed = @ \ {e}, !.known[e] = "none"]

\* the body of entries.forEach
onEntry(r, entry) ==
  IF entry.isIntersecting THEN unobserve(animateElement(r, entry.target), entry.target)
  ELSE r

\* the observer's callback on a batch of entries
RECURSIVE onIntersection(_, _)
onIntersection(r, entries) ==
  IF entries = <<>> THEN r
  ELSE onIntersection(onEntry(r, Head(entries)), Tail(entries))

\* constructor and DOMContentLoaded: no observer under reduced motion, no
\* ScrollAnimations on a mobile viewport; otherwise every element is observed
RevealInit ==
  /\ NavInit(Elements, {LayoutPlain}, BOOLEAN)
  /\ TimingIdle
  /\ probe = NoProbe
  /\ observed = IF reducedMotion \/ isMobile THEN {} ELSE RevealEls
  /\ inView \in SUBSET RevealEls
  /\ known = [e \in RevealEls |-> "none"]
  /\ queued = <<>>
  /\ animated = [e \in RevealEls |-> 0]
  /\ elStyle = [e \in RevealEls |-> ""]
  /\ frames = [e \in RevealEls |-> 0]
  /\ phase = "ready"
  /\ navigation = "instance"
  /\ exported = "null"

\* the page moves: element e enters or leaves the root's intersection area
Move(e) ==
  /\ inView' = IF e \in inView THEN inView \ {e} ELSE inView \cup {e}
  /\ UNCHANGED <<observed, known, queued, animated, elStyle, frames>>
  /\ UNCHANGED <<timingVars, pageVars, isOpen, lastScrollY, resizePending,
                 scrollPending, pendingScrolls, animTimers, ev, closeCalls, err,
                 prevented, scrollCalls, lockY, toggleRun, probe, loadVars>>

\* the targets whose intersection state differs from the recorded one
Changed == {e \in observed : known[e] # (IF e \in inView THEN "in" ELSE "out")}

RECURSIVE EntriesFrom(_)
EntriesFrom(k) ==
  IF k > Len(RevealOrder) THEN <<>>
  ELSE (IF RevealOrder[k] \in Changed
          THEN <<[target |-> RevealOrder[k], isIntersecting |-> RevealOrder[k] \in inView]>>
          ELSE <<>>) \o EntriesFrom(k + 1)

\* the host updates the rendering: one entry per target whose state changed
UpdateRendering ==
  /\ Changed # {}
  /\ Len(queued) + Cardinality(Changed) <= MaxQueued
  /\ queued' = queued \o EntriesFrom(1)
  /\ known' = [e \in RevealEls |->
                 IF e \in Changed THEN (IF e \in inView THEN "in" ELSE "out")
                 ELSE known[e]]
  /\ UNCHANGED <<observed, inView, animated, elStyle, frames>>
  /\ UNCHANGED <<timingVars, pageVars, isOpen, lastScrollY, resizePending,
                 scrollPending, pendingScrolls, animTimers, ev, closeCalls, err,
                 prevented, scrollCalls, lockY, toggleRun, probe, loadVars>>

\* the host's task that notifies the observer: the callback gets every queued
\* entry in one batch
Deliver ==
  LET r == onIntersection(Rv, queued) IN
  /\ queued # <<>>
  /\ queued' = <<>>
  /\ observed' = r.observed
  /\ known' = r.known
  /\ animated' = r.animated
  /\ elStyle' = r.elStyle
  /\ frames' = r.frames
  /\ UNCHANGED inView
  /\ UNCHANGED <<timingVars, pageVars, isOpen, lastScrollY, resizePending,
                 scrollPending, pendingScrolls, animTimers, ev, closeCalls, err,
                 prevented, scrollCalls, lockY, toggleRun, probe, loadVars>>

\* the requestAnimationFrame callback of animateElement
Frame(e) ==
  /\ frames[e] > 0
  /\ frames' = [frames EXCEPT ![e] = @ - 1]
  /\ elStyle' = [elStyle EXCEPT ![e] = "end"]
  /\ UNCHANGED <<observed, inView, known, queued, animated>>
  /\ UNCHANGED <<timingVars, pageVars, isOpen, lastScrollY, resizePending,
                 scrollPending, pendingScrolls, animTimers, ev, closeCalls, err,
                 prevented, scrollCalls, lockY, toggleRun, probe, loadVars>>

RevealNext ==
  \/ \E e \in RevealEls : Move(e)
  \/ UpdateRendering
  \/ Deliver
  \/ \E e \in RevealEls : Frame(e)

SpecReveal == RevealInit /\ [][RevealNext]_vars

(***************************************************************************)
(* The script's top level: its evaluation while the document is loading,   *)
(* then the DOMContentLoaded listener                                      *)
(***************************************************************************)
\* the document is being parsed, the script has not run yet
LoadInit ==
  /\ layout = LayoutPlain
  /\ present \in SUBSET Elements
  /\ reducedMotion \in BOOLEAN
  /\ innerWidth \in Widths
  /\ scrollY \in ScrollYs
  /\ body = NoStyle
  /\ listActive = FALSE
  /\ toggleActive = FALSE
  /\ navTransform = ""
  /\ activeLinks = {}
  /\ liStyle = [i \in Items |-> ""]
  /\ isOpen = FALSE
  /\ lastScrollY = 0
  /\ resizePending = FALSE
  /\ scrollPending = FALSE
  /\ pendingScrolls = <<>>
  /\ animTimers = [i \in Items |-> 0]
  /\ ev = "none"
  /\ closeCalls = 0
  /\ err = FALSE
  /\ prevented = FALSE
  /\ scrollCalls = 0
  /\ lockY = -1
  /\ toggleRun = -1
  /\ TimingIdle
  /\ probe = NoProbe
  /\ observed = {}
  /\ inView = {}
  /\ known = [e \in RevealEls |-> "none"]
  /\ queued = <<>>
  /\ animated = [e \in RevealEls |-> 0]
  /\ elStyle = [e \in RevealEls |-> ""]
  /\ frames = [e \in RevealEls |-> 0]
  /\ phase = "loading"
  /\ navigation = "undefined"
  /\ exported = "undefined"

\* the value the object literal { navigation, ... } stores: the value the
\* binding has when the literal is evaluated
Exported(binding) == binding

\* the script runs to its end: `let navigation = null`, the listeners are
\* registered, window.NexoDigital is assigned
EvalScript ==
  /\ phase = "loading"
  /\ phase' = "script"
  /\ navigation' = "null"
  /\ exported' = Exported(navigation')
  /\ ev' = "script"
  /\ UNCHANGED <<timingVars, pageVars, isOpen, lastScrollY, resizePending,
                 scrollPending, pendingScrolls, animTimers, closeCalls, err,
                 prevented, scrollCalls, lockY, toggleRun, probe, revealVars>>

\* the DOMContentLoaded listener: new Navigation(), whose constructor runs
\* init() when the three elements exist, then new ScrollAnimations() unless
\* the viewport is mobile
DOMContentLoaded ==
  LET s == IF Bound THEN handleResize(updateActiveLink(St)) ELSE St IN
  /\ phase = "script"
  /\ phase' = "ready"
  /\ navigation' = "instance"
  /\ UNCHANGED exported
  /\ activeLinks' = s.activeLinks
  /\ liStyle' = s.liStyle
  /\ err' = s.err
  /\ closeCalls' = s.closeCalls
  /\ ev' = "init"
  /\ toggleRun' = 0
  /\ observed' = IF reducedMotion \/ isMobile THEN {} ELSE RevealEls
  /\ UNCHANGED <<layout, present, reducedMotion, innerWidth, scrollY, body,
                 listActive, toggleActive, navTransform, isOpen, lastScrollY,
                 resizePending, scrollPending, pendingScrolls, animTimers,
                 prevented, scrollCalls, lockY, probe, inView, known, queued,
                 animated, elStyle, frames>>
  /\ UNCHANGED timingVars

LoadNext ==
  \/ EvalScript
  \/ DOMContentLoaded
  \/ phase = "ready" /\ ToggleClick
  \/ phase = "ready" /\ EscapeKey
  \/ phase = "ready" /\ \E w \in Widths : Resize(w)
  \/ phase = "ready" /\ ResizeTimer
  \/ phase = "ready" /\ \E i \in Items : AnimTimer(i)

SpecLoad == LoadInit /\ [][LoadNext]_vars

(***************************************************************************)
(* deviceCapabilities called by a script of the page while the window is   *)
(* resized to widths around the two breakpoints                            *)
(***************************************************************************)
ProbeWidths == {320, MobileBreakpoint - 1, MobileBreakpoint, MobileBreakpoint + 1,
                TabletBreakpoint - 1, TabletBreakpoint, TabletBreakpoint + 1}

\* deviceCapabilities.isMobile() and deviceCapabilities.isTablet() are called
CallProbe ==
  /\ probe' = [w |-> innerWidth, mobile |-> isMobile, tablet |-> isTablet]
  /\ ev' = "probe"
  /\ toggleRun' = -1
  /\ UNCHANGED <<timingVars, pageVars, isOpen, lastScrollY, resizePending,
                 scrollPending, pendingScrolls, animTimers, closeCalls, err,
                 prevented, scrollCalls, lockY, revealVars, loadVars>>

ProbeNext ==
  \/ CallProbe
  \/ \E w \in ProbeWidths : Resize(w)
  \/ ResizeTimer
  \/ ToggleClick
  \/ \E i \in Items : AnimTimer(i)

SpecProbe == Init /\ [][ProbeNext]_vars

(***************************************************************************)
(* Properties of throttle                                                  *)
(***************************************************************************)
\* the calls of the scenario: delay 16 ms, calls at 0, 5, 10 and 20 ms, all
\* timers run
ThrottleScenarioDone ==
  /\ delay = ThrottleDelay
  /\ callLog = <<0, 5, 10, 20>>
  /\ timers = {}

\* C4 as stated: in the scenario fn runs exactly twice, at 0 ms and at 16 ms, the
\* second time with the arguments of the last call (the call at 20 ms).
C4_TwoExecutions ==
  ThrottleScenarioDone =>
    /\ Len(execLog) = 2
    /\ execLog[1].t = 0
    /\ execLog[2].t = 16
    /\ execLog[2].arg = 4

\* C4 amended: in the scenario fn runs exactly three times, first at 0 ms with
\* the first call's arguments; when the host runs the timers on time the second
\* run is the trailing one at 16 ms with the arguments of the call at 10 ms, and
\* the third is a trailing one at 32 ms with the arguments of the call at 20 ms.
C4_ThreeExecutions ==
  ThrottleScenarioDone =>
    /\ Len(execLog) = 3
    /\ execLog[1].t = 0 /\ execLog[1].arg = 1 /\ execLog[1].kind = "leading"
    /\ ~late =>
         /\ execLog[2].t = 16 /\ execLog[2].arg = 3 /\ execLog[2].kind = "trailing"
         /\ execLog[3].t = 32 /\ execLog[3].arg = 4 /\ execLog[3].kind = "trailing"

C4_Witness == ThrottleScenarioDone /\ ~late /\ Len(execLog) = 3

\* C5: any two executions of fn are at least delay ms apart.
C5_MinGap ==
  \A i \in 2..Len(execLog) : execLog[i].t - execLog[i-1].t >= delay

\* C6: at most one trailing timer is pending; it carries the arguments and the
\* binding context of the most recent call that arrived inside the window and
\* is due at that window's boundary (last execution + delay); once it has run,
\* that call has been executed exactly once, as a trailing execution, at the
\* boundary when the host runs timers on time, and no call is ever executed
\* twice.
C6_OneTrailing ==
  /\ Cardinality(timers) <= 1
  /\ \A tm \in timers :
       /\ tm.arg = winCall.arg /\ tm.ctx = winCall.ctx /\ tm.due = winCall.due
       /\ ~late => now <= tm.due /\ tm.due = (lastExecTime - Epoch) + delay
  /\ (timers = {} /\ winCall # NoCall) =>
       /\ Cardinality({i \in 1..Len(execLog) : execLog[i].arg = winCall.arg}) = 1
       /\ \E i \in 1..Len(execLog) :
            /\ execLog[i].arg = winCall.arg /\ execLog[i].ctx = winCall.ctx
            /\ execLog[i].kind = "trailing"
            /\ execLog[i].t >= winCall.due
            /\ ~late => execLog[i].t = winCall.due
  /\ \A i, j \in 1..Len(execLog) : execLog[i].arg = execLog[j].arg => i = j

\* three calls inside one window, then the one trailing execution, on time
C6_Witness ==
  /\ Len(callLog) = 4 /\ Len(execLog) = 2 /\ timers = {} /\ ~late
  /\ execLog[2].kind = "trailing" /\ execLog[2].arg = 4

(***************************************************************************)
(* Properties of debounce                                                  *)
(***************************************************************************)
DebounceScenarioDone ==
  /\ delay = DebounceDelay
  /\ callLog = <<0, 50, 100>>
  /\ timers = {}

\* C7: fn runs only for a call that no later call followed before the run, no
\* earlier than delay after that call and exactly delay after it when the host
\* runs timers on time; a call cancels the pending timer and restarts it, so at
\* most one timer is pending, it belongs to the latest call, and a call that is
\* followed by another within less than delay never runs; calls at 0, 50 and
\* 100 ms with delay 300 give one execution, at 400 ms, with the third call's
\* arguments and context.
C7_Debounce ==
  /\ \A i \in 1..Len(execLog) :
       LET e == execLog[i] IN
       /\ e.arg \in 1..Len(callLog)
       /\ e.t >= callLog[e.arg] + delay
       /\ ~late => e.t = callLog[e.arg] + delay
       /\ \A k \in 1..Len(callLog) : k > e.arg => callLog[k] >= e.t
       /\ \A j \in 1..Len(execLog) : execLog[j].arg = e.arg => j = i
  /\ Cardinality(timers) <= 1
  /\ \A tm \in timers :
       /\ tm.arg = Len(callLog) /\ tm.ctx = winCall.ctx
       /\ tm.due = callLog[Len(callLog)] + delay
  /\ \A k \in 1..(Len(callLog) - 1) :
       callLog[k+1] - callLog[k] < delay =>
         \A i \in 1..Len(execLog) : execLog[i].arg # k
  /\ (timers = {} /\ callLog # <<>>) =>
       /\ execLog # <<>>
       /\ execLog[Len(execLog)].arg = Len(callLog)
       /\ execLog[Len(execLog)].ctx = winCall.ctx
  /\ DebounceScenarioDone =>
       /\ Len(execLog) = 1 /\ execLog[1].arg = 3
       /\ execLog[1].t >= 400
       /\ ~late => execLog[1].t = 400

C7_Witness ==
  DebounceScenarioDone /\ ~late /\ Len(execLog) = 1 /\ execLog[1].t = 400

(***************************************************************************)
(* Properties of Navigation                                                *)
(***************************************************************************)
BodyLocked == body.position = "fixed" /\ body.overflow = "hidden"
BodyFree == body.position = "" /\ body.overflow = ""

\* C1: from CLOSED, after n toggle clicks at a fixed width and nothing else,
\* the menu is OPEN iff n is odd, and the body is locked iff the menu is OPEN
\* and the viewport is mobile-width.
C1_ToggleAlternates ==
  toggleRun >= 0 =>
    /\ isOpen <=> (toggleRun % 2 = 1)
    /\ IF isOpen /\ isMobile THEN BodyLocked ELSE BodyFree

C1_Witness == toggleRun = 3 /\ isOpen /\ isMobile /\ BodyLocked

\* C2: a step in which close() runs while the lock applied at offset lockY is
\* in effect ends with the lock styles cleared and window.scrollY = lockY,
\* whatever the trigger.
C2_CloseRestores ==
  [][(closeCalls' > 0 /\ body.position = "fixed")
       => (body' = NoStyle /\ scrollY' = lockY)]_vars

\* C3: the debounced resize handler closes the menu, with one call of close(),
\* when it finds it OPEN on a non-mobile viewport; run in any other state, and
\* in particular when the menu is already CLOSED, it calls close() not at all
\* and changes neither the state nor the classes nor the body styles; a resize
\* event itself never changes them.
C3_ResizeClosesOnce ==
  [][/\ (ev' = "resizeTimer" /\ resizePending) =>
          IF isOpen /\ ~isMobile
            THEN ~isOpen' /\ closeCalls' = 1
            ELSE /\ closeCalls' = 0
                 /\ UNCHANGED <<isOpen, listActive, toggleActive, body, scrollY>>
     /\ ev' = "resize" =>
          /\ closeCalls' = 0
          /\ UNCHANGED <<isOpen, listActive, toggleActive, body, scrollY>>
    ]_vars

C3_Witness == ev = "resizeTimer" /\ closeCalls = 1 /\ ~isOpen /\ ~isMobile

\* the sections whose bounds contain the scroll offset
SectionsAt(y) ==
  {k \in 1..Len(layout.sections) : SectionContains(layout.sections[k], y)}

LinksTo(href) == {i \in Links : layout.links[i] = href}

JustUpdated == ev \in {"init", "scrollTick"}

\* C8 as stated: after updateActiveLink, below 100 px only the home link is
\* marked; from 100 px on, inside the bounds of a section with an id, exactly
\* one link is marked and it is the link to that section.
C8_ExactlyOne ==
  JustUpdated =>
    /\ scrollY < Px(100) => activeLinks = LinksTo(Home)
    /\ \A k \in SectionsAt(scrollY) :
         scrollY >= Px(100) =>
           /\ Cardinality(activeLinks) = 1
           /\ activeLinks = LinksTo(Hash(layout.sections[k].id))

\* C8 amended: after updateActiveLink, below 100 px the links marked are those
\* whose href is '#'; from 100 px on, inside the bounds of some section with an
\* id, the links marked are those whose href is '#' followed by the id of the
\* last such section in document order: exactly one link when exactly one nav
\* link points to that section, none when none does.
C8_LastSection ==
  JustUpdated =>
    /\ scrollY < Px(100) => activeLinks = LinksTo(Home)
    /\ (scrollY >= Px(100) /\ SectionsAt(scrollY) # {}) =>
         LET last == layout.sections[Latest(SectionsAt(scrollY))]
         IN /\ activeLinks = LinksTo(Hash(last.id))
            /\ Cardinality(LinksTo(Hash(last.id))) = 1 => Cardinality(activeLinks) = 1

C8_Witness ==
  /\ ev = "scrollTick" /\ layout = LayoutNested /\ scrollY = Px(500)
  /\ Cardinality(SectionsAt(scrollY)) = 2
  /\ activeLinks = {3}

\* C9: an Escape keydown while CLOSED calls close() not at all and changes
\* nothing: not isOpen, the classes, the body styles, the scroll offset, nor
\* anything else of the page or the instance.
C9_EscapeClosedNoop ==
  [][(ev' = "escape" /\ ~isOpen) =>
       /\ closeCalls' = 0 /\ err' = FALSE
       /\ UNCHANGED <<pageVars, isOpen, lastScrollY, resizePending,
                      scrollPending, pendingScrolls, animTimers, lockY>>
    ]_vars

C9_Witness == ev = "escape" /\ ~isOpen /\ closeCalls = 0 /\ BodyFree

\* C10: on an instance built without one of the three elements, no method
\* call and no document event changes the instance or the page, and none
\* raises an error.
C10_DisabledNoop ==
  [][~Bound =>
       /\ err' = FALSE
       /\ UNCHANGED <<isOpen, lastScrollY, listActive, toggleActive, body,
                      navTransform, activeLinks, liStyle, animTimers>>
    ]_vars

\* C14: a click on a link whose href starts with '#' while the menu is OPEN on
\* a mobile viewport prevents the default, calls close() once, issues no
\* scrollToSection in the click itself and schedules one 150 ms timer; the
\* timer, when it runs, issues exactly one scrollToSection, without error.
C14_DeferredScroll ==
  [][/\ \A i \in Links :
          (LinkClick(i) /\ isOpen /\ isMobile /\ layout.links[i].hash) =>
            /\ prevented' /\ closeCalls' = 1 /\ ~isOpen'
            /\ scrollCalls' = 0
            /\ pendingScrolls' = Append(pendingScrolls, layout.links[i])
     /\ ScrollTimer => (scrollCalls' = 1 /\ ~err')
    ]_vars

\* C15: whenever the body-scroll lock is applied, the menu is OPEN.
C15_LockedImpliesOpen == BodyLocked => isOpen

C17_ScrollTick ==
  [][ev' = "scrollTick" =>
       LET p == lastScrollY
           y == scrollY
       IN /\ lastScrollY' = y
          /\ UNCHANGED scrollY
          /\ IF Abs(y - p) > Px(10)
                THEN navTransform' = (IF y > p /\ y > Px(100)
                                        THEN "translateY(-100%)"
                                        ELSE "translateY(0)")
                ELSE navTransform' = navTransform
    ]_vars

\* the navbar stayed hidden through a tick that moved 10 px upwards
C17_Witness ==
  /\ ev = "scrollTick" /\ scrollY = Px(101) /\ lastScrollY = Px(101)
  /\ navTransform = "translateY(-100%)"

\* C18: isOpen becomes true only in a toggle click (open()) and false only in
\* a handler that called close(); lastScrollY changes only in a scroll tick;
\* a scroll tick leaves isOpen, the active classes and the body styles
\* unchanged.
C18_Frames ==
  [][/\ (isOpen' /\ ~isOpen) => ev' = "toggle"
     /\ (~isOpen' /\ isOpen) => closeCalls' > 0
     /\ lastScrollY' # lastScrollY => ev' = "scrollTick"
     /\ (ToggleClick \/ OutsideClick \/ EscapeKey \/ ResizeTimer
           \/ (\E i \in Links : LinkClick(i)) \/ (\E w \in Widths : Resize(w)))
          => lastScrollY' = lastScrollY
     /\ ScrollTick => UNCHANGED <<isOpen, listActive, toggleActive, body>>
    ]_vars

\* a scroll tick handled while the menu is open, after an earlier one
C18_Witness == ev = "scrollTick" /\ isOpen /\ lastScrollY = Px(500) /\ listActive

\* C19: isOpen is true iff the menu list carries 'active' and iff the toggle
\* button carries 'active'.
C19_FlagMatchesClasses == (isOpen <=> listActive) /\ (isOpen <=> toggleActive)

C19_Witness == ev = "toggle" /\ isOpen /\ listActive /\ toggleActive /\ closeCalls = 0

\* C20: the 150 ms timer of a link click never runs scrollToSection while the
\* menu is OPEN with the body locked.
C20_NoScrollWhileLocked ==
  [][ScrollTimer => ~(isOpen /\ BodyLocked)]_vars

\* C21: the debounced resize handler run on a non-mobile viewport leaves no
\* menu item with inline opacity, transform or transition, and while no item
\* carries any, only a call of open() makes one carry them again: no entrance
\* timer of an earlier open() re-applies them.
C21_ClearedStaysClear ==
  [][/\ (ev' = "resizeTimer" /\ ~isMobile) => \A i \in Items : liStyle'[i] = ""
     /\ ((\A i \in Items : liStyle[i] = "") /\ ~(ev' = "toggle" /\ isOpen'))
          => \A i \in Items : liStyle'[i] = ""
    ]_vars

(***************************************************************************)
(* Properties of ScrollAnimations                                          *)
(***************************************************************************)
\* C11: animateElement is invoked on an element at most once, in the step that
\* handles its first intersecting entry; the element is observed before that
\* step and unobserved after it, and the set of observed elements only shrinks.
C11_AnimatedOnce ==
  [][/\ observed' \subseteq observed
     /\ \A e \in RevealEls :
          /\ animated'[e] <= 1
          /\ animated'[e] > animated[e] => (e \in observed /\ e \notin observed')
    ]_vars

(***************************************************************************)
(* Properties of the script's top level                                    *)
(***************************************************************************)
\* C12: once DOMContentLoaded initialization has completed without error,
\* window.NexoDigital.navigation is the Navigation instance that was
\* constructed, and is not null.
C12_NavigationExported ==
  (phase = "ready" /\ ~err) => (exported = "instance" /\ exported = navigation)

(***************************************************************************)
(* Properties of deviceCapabilities                                        *)
(***************************************************************************)
\* C13: at every width isMobile() and isTablet() are not both true; a call
\* returns mobile iff the width the window has at that moment is <= 768 and
\* tablet iff it is > 768 and <= 1024, also right after the width has changed.
C13_MobileTabletExclusive ==
  /\ ~(isMobile /\ isTablet)
  /\ ev = "probe" =>
       /\ probe.w = innerWidth
       /\ probe.mobile <=> (innerWidth <= MobileBreakpoint)
       /\ probe.tablet <=> (MobileBreakpoint < innerWidth /\ innerWidth <= TabletBreakpoint)
       /\ ~(probe.mobile /\ probe.tablet)

\* a call after the window was resized to the tablet breakpoint
C13_Witness ==
  /\ ev = "probe" /\ probe.w = TabletBreakpoint /\ innerWidth = TabletBreakpoint
  /\ probe.tablet /\ ~probe.mobile

====
